---- MODULE Spec2Model ----
(***************************************************************************)
(* Model of app.py: the binning helper safe_binning, the event-rate plot   *)
(* plot_event_rate_bar, the six page handlers and the shell main().        *)
(*                                                                         *)
(* A pandas Series is a function from its index labels to cells.  Cells    *)
(* are integers: the finite values 0..MaxVal, and three distinguished      *)
(* integers for +inf, -inf and NaN, placed so that the integer order on    *)
(* the non-NaN cells is the order of the extended reals.                   *)
(*                                                                         *)
(* Bin edges are rationals; an edge e is stored as the integer e * scale,  *)
(* where scale is the bin count q for quantile edges and                   *)
(* CutAdjDenom * bins for equal-width edges, so all arithmetic is exact.   *)
(***************************************************************************)
EXTENDS FiniteSets, Integers, Sequences, TLC

VARIABLES
    \* one call of safe_binning
    series,     \* the argument series
    bins,       \* the argument bins
    sb_pc,      \* position inside safe_binning
    cur,        \* the local series after dropna
    attempts,   \* the binning calls made so far, in order
    result,     \* what the call returned
    \* one session of the dashboard
    file,       \* data.csv on disk
    df,         \* the DataFrame main() holds
    pc,         \* position of the script run
    out,        \* what the run has put on the page, in order
    invoked,    \* the page handlers the run has entered
    binCalls,   \* the safe_binning calls of the run
    rate,       \* the locals of plot_event_rate_bar in the run
    loads       \* the read_csv calls of the run

sbvars == <<series, bins, sb_pc, cur, attempts, result>>
appvars == <<file, df, pc, out, invoked, binCalls, rate, loads>>
vars == <<series, bins, sb_pc, cur, attempts, result,
          file, df, pc, out, invoked, binCalls, rate, loads>>

\* ---------------------------------------------------------------- bounds
MaxVal == 2
MaxLen == 4
MaxBins == 3
NRows == 3

\* ----------------------------------------------------------------- cells
PosInf == MaxVal + 1
NegInf == 0 - PosInf
NaN == MaxVal + 2

Finite == 0..MaxVal
Cell == Finite \cup {PosInf, NegInf, NaN}

isinf(v) == v \in {PosInf, NegInf}

\* Series.empty
empty(s) == DOMAIN s = {}

\* variant of dropna that drops nothing
dropna_keeps_all(s) == s

\* Series.dropna(): the entries that are not NaN, under their own labels.
\* (+inf and -inf are not missing values to pandas.)
dropna(s) == [i \in {j \in DOMAIN s : s[j] # NaN} |-> s[i]]

\* the set of values of a series (np.unique, as a set)
np_unique(s) == {s[i] : i \in DOMAIN s}

\* the p-th smallest element of a finite set of integers
Nth(S, p) == CHOOSE x \in S : Cardinality({y \in S : y < x}) = p - 1

SetToSortedSeq(S) == [p \in 1..Cardinality(S) |-> Nth(S, p)]

\* the values of a NaN-free series in ascending order, with repetitions
SortedValues(s) ==
    [p \in 1..Cardinality(DOMAIN s) |->
        CHOOSE v \in np_unique(s) :
            /\ Cardinality({i \in DOMAIN s : s[i] < v}) < p
            /\ p <= Cardinality({i \in DOMAIN s : s[i] <= v})]

\* Series.unique(): the distinct values in order of first appearance
series_unique(s) ==
    LET first == {i \in DOMAIN s : \A j \in DOMAIN s : j < i => s[j] # s[i]}
    IN  [p \in 1..Cardinality(first) |-> s[Nth(first, p)]]

\* ---------------------------------------------------------------- labels
NoBin == [kind |-> "nan", left |-> 0, right |-> 0]
Interval(l, r) == [kind |-> "interval", left |-> l, right |-> r]
ValueLabel(v) == [kind |-> "value", left |-> v, right |-> v]

\* bins.searchsorted(x, side="left") followed by the include_lowest fix and
\* the NA mask of pandas' _bins_to_cuts: the number of the interval
\* (edges[k], edges[k+1]] that holds v, or 0 when v lies outside the edges.
BinNumber(v, edges, scale, include_lowest) ==
    LET m == Len(edges)
        ids == IF include_lowest /\ scale * v = edges[1]
               THEN 1
               ELSE Cardinality({k \in 1..m : edges[k] < scale * v})
    IN  IF ids = 0 \/ ids = m THEN 0 ELSE ids

LabelOf(v, edges, scale, include_lowest) ==
    LET k == BinNumber(v, edges, scale, include_lowest)
    IN  IF k = 0 THEN NoBin ELSE Interval(edges[k], edges[k + 1])

Raised == [ok |-> FALSE, kind |-> "raised", labels |-> <<>>, edges |-> <<>>,
           scale |-> 1]

Binned(kind, s, edges, scale, include_lowest) ==
    [ok |-> TRUE, kind |-> kind,
     labels |-> [i \in DOMAIN s |-> LabelOf(s[i], edges, scale, include_lowest)],
     edges |-> edges, scale |-> scale]

\* --------------------------------------------------------------- pd.qcut
\* The k-th of the q+1 quantile edges of the sorted values srt, times q:
\* linear interpolation at position k*(n-1)/q.  Between a finite value and
\* an infinity the interpolation is the infinity; between -inf and +inf it
\* is NaN (inf - inf).
QuantileEdge(srt, q, k) ==
    LET pos == k * (Len(srt) - 1)
        lo == pos \div q
        rem == pos % q
        a == srt[lo + 1]
    IN  IF rem = 0 THEN q * a
        ELSE LET b == srt[lo + 2]
             IN  IF a = b THEN q * a
                 ELSE IF a = NegInf /\ b = PosInf THEN q * NaN
                 ELSE IF a = NegInf THEN q * NegInf
                 ELSE IF b = PosInf THEN q * PosInf
                 ELSE q * a + rem * (b - a)

QuantileEdges(s, q) == {QuantileEdge(SortedValues(s), q, k) : k \in 0..q}

\* pd.qcut(series, q=bins, duplicates='drop', retbins=True) on a NaN-free,
\* non-empty series: the set of outcomes.  Duplicate edges are dropped; the
\* lowest edge is included in the first interval.  On data that holds an
\* infinity the quantile computation may yield NaN edges, depending on how
\* the numeric library interpolates around inf (inf - inf, inf * 0), and
\* the call then raises; both outcomes are kept.
qcut(s, q) ==
    LET es == QuantileEdges(s, q)
        good == Binned("qcut", s, SetToSortedSeq(es), q, TRUE)
    IN  IF \E i \in DOMAIN s : isinf(s[i])
        THEN {Raised} \cup (IF q * NaN \in es THEN {} ELSE {good})
        ELSE {good}

\* ---------------------------------------------------------------- pd.cut
\* the denominator of the 0.1 % range adjustment pandas applies to the ends
CutAdjDenom == 1000

Abs(v) == IF v < 0 THEN 0 - v ELSE v

Min(S) == CHOOSE x \in S : \A y \in S : x <= y
Max(S) == CHOOSE x \in S : \A y \in S : y <= x

\* the b+1 equal-width edges over [mn, mx], times CutAdjDenom * b
CutEdges(mn, mx, b) ==
    LET sc == CutAdjDenom * b
    IN  IF mn = mx
        THEN LET adj == IF mn # 0 THEN b * Abs(mn) ELSE b
                 lo == sc * mn - adj
                 hi == sc * mx + adj
             IN  [k \in 1..(b + 1) |-> lo + (k - 1) * ((hi - lo) \div b)]
        ELSE [k \in 1..(b + 1) |->
                 IF k = 1 THEN sc * mn - (mx - mn) * b
                 ELSE sc * mn + (k - 1) * (mx - mn) * CutAdjDenom]

\* pd.cut(series, bins=bins, retbins=True) with an integer bin count: raises
\* on an empty array and on data that contains an infinity.
cut(s, b) ==
    IF empty(s) \/ b < 1 \/ \E i \in DOMAIN s : isinf(s[i])
    THEN Raised
    ELSE Binned("cut", s, CutEdges(Min(np_unique(s)), Max(np_unique(s)), b),
                CutAdjDenom * b, FALSE)

\* pd.Series(series), series.unique(): every value is its own bin
identity(s) ==
    [ok |-> TRUE, kind |-> "identity",
     labels |-> [i \in DOMAIN s |-> ValueLabel(s[i])],
     edges |-> series_unique(s), scale |-> 1]

EmptyResult == [ok |-> TRUE, kind |-> "empty", labels |-> <<>>,
                edges |-> <<>>, scale |-> 1]

\* ---------------------------------------------------------- safe_binning
\* variant of first_attempt with the comparison turned round
first_attempt_flipped(s, b) ==
    IF Cardinality(np_unique(s)) <= b THEN "qcut" ELSE "cut"

\* the first strategy of the try block
first_attempt(s, b) ==
    IF Cardinality(np_unique(s)) > b THEN "qcut" ELSE "cut"

first_outcomes(s, b) ==
    IF first_attempt(s, b) = "qcut" THEN qcut(s, b) ELSE {cut(s, b)}

\* variant of except_inner that lets the exception go
except_inner_reraise(s) == Raised

\* the inner except clause
except_inner(s) == identity(s)

\* the outer except clause: equal-width again, then the inner except
except_outer(s, b) ==
    LET second == cut(s, b)
    IN  IF second.ok THEN second ELSE except_inner(s)

\* safe_binning(series, bins) as a whole: the set of results it can return
safe_binning(s, b) ==
    LET c == dropna(s)
    IN  IF empty(c) THEN {EmptyResult}
        ELSE {o \in first_outcomes(c, b) : o.ok}
             \cup (IF \E o \in first_outcomes(c, b) : ~o.ok
                   THEN {except_outer(c, b)} ELSE {})

\* ------------------------------------------------------------ DataFrames
TARGET_FEATURE == "default_ind"

Range(sq) == {sq[i] : i \in 1..Len(sq)}

NoFrame == [columns |-> <<>>, dtype |-> <<>>, data |-> <<>>]

Frame(cols, objcols, data) ==
    [columns |-> cols,
     dtype |-> [c \in Range(cols) |-> IF c \in objcols THEN "obj" ELSE "num"],
     data |-> data]

\* df.select_dtypes(include=np.number).columns
numeric_columns(d) == {c \in Range(d.columns) : d.dtype[c] = "num"}

\* Series.nunique(): the distinct non-missing values
nunique(s) == Cardinality(np_unique(dropna(s)))

\* Series.replace([np.inf, -np.inf], np.nan)
replace_inf(s) == [i \in DOMAIN s |-> IF isinf(s[i]) THEN NaN ELSE s[i]]

\* variant of Replace that writes the result back into the frame
ReplaceInplace(d, f) ==
    [frame |-> [d EXCEPT !.data[f] = replace_inf(d.data[f])],
     result |-> replace_inf(d.data[f])]

\* df[x_feature].replace(...) without inplace: a new series; the frame and
\* its column stay as they were.
Replace(d, f) == [frame |-> d, result |-> replace_inf(d.data[f])]

\* variant of Mask that looks at the feature only
MaskXOnly(x, y) == {i \in DOMAIN x : x[i] # NaN}

\* (~x.isna()) & (~y.isna()): the labels where the mask is True
Mask(x, y) == {i \in DOMAIN x : x[i] # NaN /\ y[i] # NaN}

\* s[mask]: boolean indexing keeps the selected labels
Take(s, m) == [i \in m |-> s[i]]

\* ------------------------------------------------------------ page items
Item(kind, about) == [kind |-> kind, about |-> about, table |-> {}]
TableItem(about, tbl) == [kind |-> "table", about |-> about, table |-> tbl]

RECURSIVE SumOver(_, _)
SumOver(S, f) ==
    IF S = {} THEN 0
    ELSE LET i == CHOOSE j \in S : TRUE IN f[i] + SumOver(S \ {i}, f)

\* pd.DataFrame({'x_bin': x_binned.astype(str), y_feature: y}) aligns the two
\* series on the union of their labels; groupby('x_bin')[y].agg(['mean',
\* 'count']) then makes one row per bin label: the mean and the number of
\* the non-missing target cells of the bin.  astype(str) turns a missing
\* label into the text "nan", which is a group key like any other; a label
\* that is absent after the alignment is a missing key and its row is left
\* out.  The mean is kept as the pair (events, Count).
EventRateTable(xb, y) ==
    LET keyed == DOMAIN xb
        yv(i) == IF i \in DOMAIN y THEN y[i] ELSE NaN
        grp(b) == {i \in keyed : xb[i] = b /\ yv(i) # NaN}
    IN  {[Bin |-> b, events |-> SumOver(grp(b), y), Count |-> Cardinality(grp(b))] :
            b \in {xb[i] : i \in keyed}}

NoRate == [ran |-> FALSE, feature |-> "", x |-> <<>>, y |-> <<>>, table |-> {},
           made |-> FALSE]

RateLocals(xf, x, y, tbl, made) ==
    [ran |-> TRUE, feature |-> xf, x |-> x, y |-> y, table |-> tbl, made |-> made]

\* variant of no_valid_data that never holds
no_valid_data_never(x) == FALSE

\* if x.empty
no_valid_data(x) == empty(x)

Outcome(items, frame, calls, rt, raised) ==
    [out |-> items, frame |-> frame, calls |-> calls, rate |-> rt,
     raised |-> raised]

Faults == {"none", "page", "early", "late"}

\* plot_boxplot(df, x_feature, y_feature): the chart, then the summary table;
\* an exception anywhere inside becomes an st.error.
plot_boxplot(d, xf, yf, fault) ==
    Outcome(IF fault = "early" THEN <<Item("error", xf)>>
            ELSE IF fault = "late" THEN <<Item("chart", "box"), Item("error", xf)>>
            ELSE <<Item("chart", "box"), TableItem("stats", {})>>,
            d, <<>>, NoRate, FALSE)

\* plot_event_rate_bar(df, x_feature, y_feature, n_bins_x): the set of its
\* outcomes.  fault "early" is an exception before the table is shown (in
\* the grouping), "late" one after it (in the chart construction).
plot_event_rate_bar(d, xf, yf, n, fault) ==
    LET r == Replace(d, xf)
        m == Mask(r.result, r.frame.data[yf])
        x == Take(r.result, m)
        y == Take(r.frame.data[yf], m)
    IN  IF no_valid_data(x)
        THEN {Outcome(<<Item("warning", xf)>>, r.frame, <<>>,
                      RateLocals(xf, x, y, {}, FALSE), FALSE)}
        ELSE {LET tbl == EventRateTable(sb.labels, y)
                  call == <<[series |-> x, bins |-> n, kind |-> sb.kind]>>
              IN  IF fault = "early"
                  THEN Outcome(<<Item("error", xf)>>, r.frame, call,
                               RateLocals(xf, x, y, {}, FALSE), FALSE)
                  ELSE Outcome(IF fault = "late"
                               THEN <<TableItem("event rate", tbl), Item("error", xf)>>
                               ELSE <<TableItem("event rate", tbl), Item("chart", "bar")>>,
                               r.frame, call,
                               RateLocals(xf, x, y, tbl, TRUE), FALSE)
              : sb \in safe_binning(x, n)}

\* ---------------------------------------------------------- page handlers
\* A page handler's parameter `fault` says where a library call inside it
\* raises: "none" nowhere, "page" in the handler's own body, "early" and
\* "late" inside the plot helper the Bivariates page calls.

POWER_BI_EMBED_URL == "https://app.powerbi.com/view"

SliderMin == 2
SliderMax == 10

Crash(d) == Outcome(<<>>, d, <<>>, NoRate, TRUE)
Shown(items, d) == Outcome(items, d, <<>>, NoRate, FALSE)

home_page(d, fault) ==
    IF fault = "page" THEN Crash(d)
    ELSE Shown(<<Item("image", "logo")>>, d)

data_overview_page(d, url, fault) ==
    IF fault = "page" THEN Crash(d)
    ELSE IF url # "" THEN Shown(<<Item("iframe", url)>>, d)
    ELSE Shown(<<Item("info", "url")>>, d)

univariate_analysis_page(d, selected, fault) ==
    IF fault = "page" THEN Crash(d)
    ELSE IF d.dtype[selected] = "num"
    THEN Shown(<<Item("chart", "histogram"), TableItem("describe", {})>>, d)
    ELSE Shown(<<Item("chart", "bar")>>, d)

correlation_page(d, fault) ==
    IF numeric_columns(d) = {}
    THEN Shown(<<Item("warning", "no numeric")>>, d)
    ELSE IF fault = "page" THEN Crash(d)
    ELSE Shown(<<Item("chart", "heatmap")>>, d)

\* st.sidebar.selectbox over an empty list gives None
NoSelection == "None"

Choices(S) == IF S = {} THEN {NoSelection} ELSE S

bivariates_page(d, target, selected, plot_mode, n, fault) ==
    LET numerical == numeric_columns(d)
        binary_like == d.dtype[target] = "num" /\ nunique(d.data[target]) <= 10
    IN  IF fault = "page" \/ target \notin Range(d.columns) THEN {Crash(d)}
        ELSE IF ~binary_like THEN {Shown(<<Item("warning", "target")>>, d)}
        ELSE IF selected \notin numerical
        THEN {Shown(<<Item("warning", "not numeric")>>, d)}
        ELSE IF plot_mode = "Boxplot"
        THEN {plot_boxplot(d, selected, target, fault)}
        ELSE plot_event_rate_bar(d, selected, target, n, fault)

defaulter_profiling_page(d, target, selected, fault) ==
    IF numeric_columns(d) \ {target} = {}
    THEN Shown(<<Item("warning", "no features")>>, d)
    ELSE IF fault = "page" \/ target \notin Range(d.columns) THEN Crash(d)
    ELSE Shown(<<Item("chart", "bar")>>, d)

\* ------------------------------------------------------------------ main
\* variant of startup without the st.stop() after the missing-target error
startup_no_stop(f) ==
    IF f.kind = "missing"
    THEN [pc |-> "halted", df |-> NoFrame,
          out |-> <<Item("error", "not found"), Item("info", "folder")>>]
    ELSE IF f.kind = "unreadable"
    THEN [pc |-> "halted", df |-> NoFrame,
          out |-> <<Item("error", "read"), Item("info", "openpyxl")>>]
    ELSE IF Len(f.frame.columns) = 0
    THEN [pc |-> "halted", df |-> f.frame,
          out |-> <<Item("warning", "no columns")>>]
    ELSE IF TARGET_FEATURE \notin Range(f.frame.columns)
    THEN [pc |-> "ready", df |-> f.frame,
          out |-> <<Item("error", "no target")>>]
    ELSE [pc |-> "ready", df |-> f.frame, out |-> <<>>]

\* main() up to the navigation radio: read data.csv and look for the target
startup(f) ==
    IF f.kind = "missing"
    THEN [pc |-> "halted", df |-> NoFrame,
          out |-> <<Item("error", "not found"), Item("info", "folder")>>]
    ELSE IF f.kind = "unreadable"
    THEN [pc |-> "halted", df |-> NoFrame,
          out |-> <<Item("error", "read"), Item("info", "openpyxl")>>]
    ELSE IF Len(f.frame.columns) = 0
    THEN [pc |-> "halted", df |-> f.frame,
          out |-> <<Item("warning", "no columns")>>]
    ELSE IF TARGET_FEATURE \notin Range(f.frame.columns)
    THEN [pc |-> "halted", df |-> f.frame,
          out |-> <<Item("error", "no target")>>]
    ELSE [pc |-> "ready", df |-> f.frame, out |-> <<>>]

\* ---------------------------------------------------------------- inputs
TargetCell == {0, 1, NaN}

RowLeq(r, s) == r[1] < s[1] \/ (r[1] = s[1] /\ r[2] <= s[2])

\* the tables with a numeric feature x and the numeric target: every choice
\* of NRows rows, listed in ascending or in descending order
Rows ==
    {rs \in [1..NRows -> Cell \X TargetCell] :
        \/ \A i \in 1..(NRows - 1) : RowLeq(rs[i], rs[i + 1])
        \/ \A i \in 1..(NRows - 1) : RowLeq(rs[i + 1], rs[i])}

SampleCol == [i \in 1..NRows |-> i % 2]

XY(rs) ==
    Frame(<<"x", TARGET_FEATURE>>, {},
          [c \in {"x", TARGET_FEATURE} |->
              [i \in 1..NRows |-> IF c = "x" THEN rs[i][1] ELSE rs[i][2]]])

Sample(cols, objcols) ==
    Frame(cols, objcols, [c \in Range(cols) |-> SampleCol])

Frames ==
    {XY(rs) : rs \in Rows}
    \cup {Sample(<<"x">>, {}),
          Sample(<<TARGET_FEATURE>>, {}),
          Sample(<<"c", TARGET_FEATURE>>, {"c", TARGET_FEATURE}),
          Sample(<<"x", TARGET_FEATURE>>, {TARGET_FEATURE}),
          Sample(<<"x", "c", TARGET_FEATURE>>, {"c"})}

Files ==
    {[kind |-> "missing", frame |-> NoFrame],
     [kind |-> "unreadable", frame |-> NoFrame]}
    \cup {[kind |-> "csv", frame |-> fr] : fr \in Frames}

NoFile == [kind |-> "none", frame |-> NoFrame]
NoResult == [ok |-> FALSE, kind |-> "none", labels |-> <<>>, edges |-> <<>>,
             scale |-> 1]

\* --------------------------------------------------------------- actions
\* the dashboard: one script run is MainLoad, then one page handler

AppIdle ==
    /\ file = NoFile /\ df = NoFrame /\ pc = "off" /\ out = <<>>
    /\ invoked = {} /\ binCalls = <<>> /\ rate = NoRate /\ loads = 0

BinIdle ==
    /\ series = <<>> /\ bins = 1 /\ sb_pc = "off" /\ cur = <<>>
    /\ attempts = <<>> /\ result = NoResult

Init ==
    /\ BinIdle
    /\ file \in Files
    /\ df = NoFrame /\ pc = "loading" /\ out = <<>> /\ invoked = {}
    /\ binCalls = <<>> /\ rate = NoRate /\ loads = 0

MainLoad ==
    /\ pc = "loading"
    /\ LET s == startup(file)
       IN  /\ pc' = s.pc
           /\ df' = s.df
           /\ out' = s.out
    /\ loads' = loads + 1
    /\ UNCHANGED <<file, invoked, binCalls, rate>>
    /\ UNCHANGED sbvars

\* the end of a page handler: its output is on the page; an exception that
\* left the handler leaves main() too and ends the run
Render(name, o) ==
    /\ pc' = IF o.raised THEN "crashed" ELSE "done"
    /\ df' = o.frame
    /\ out' = out \o o.out
    /\ invoked' = invoked \cup {name}
    /\ binCalls' = binCalls \o o.calls
    /\ rate' = o.rate
    /\ UNCHANGED <<file, loads>>
    /\ UNCHANGED sbvars

HomePage ==
    /\ pc = "ready"
    /\ \E fault \in {"none", "page"} : Render("home", home_page(df, fault))

DataOverviewPage ==
    /\ pc = "ready"
    /\ \E fault \in {"none", "page"} :
          Render("overview", data_overview_page(df, POWER_BI_EMBED_URL, fault))

UnivariatePage ==
    /\ pc = "ready"
    /\ \E selected \in Range(df.columns), fault \in {"none", "page"} :
          Render("univariate", univariate_analysis_page(df, selected, fault))

BivariatesPage ==
    /\ pc = "ready"
    /\ \E selected \in Choices(Range(df.columns) \ {TARGET_FEATURE}),
          plot_mode \in {"Boxplot", "Event Rate"},
          n \in SliderMin..SliderMax,
          fault \in Faults :
          \E o \in bivariates_page(df, TARGET_FEATURE, selected, plot_mode, n, fault) :
              Render("bivariates", o)

CorrelationPage ==
    /\ pc = "ready"
    /\ \E fault \in {"none", "page"} :
          Render("correlation", correlation_page(df, fault))

DefaulterProfilingPage ==
    /\ pc = "ready"
    /\ \E selected \in Choices(numeric_columns(df) \ {TARGET_FEATURE}),
          fault \in {"none", "page"} :
          Render("profiling",
                 defaulter_profiling_page(df, TARGET_FEATURE, selected, fault))

\* a widget interaction: the framework runs the script again from the top
Rerun ==
    /\ pc \in {"halted", "done", "crashed"}
    /\ pc' = "loading"
    /\ df' = NoFrame /\ out' = <<>> /\ invoked' = {} /\ binCalls' = <<>>
    /\ rate' = NoRate /\ loads' = 0
    /\ UNCHANGED file
    /\ UNCHANGED sbvars

Next ==
    \/ MainLoad
    \/ HomePage
    \/ DataOverviewPage
    \/ UnivariatePage
    \/ BivariatesPage
    \/ CorrelationPage
    \/ DefaulterProfilingPage
    \/ Rerun

Spec == Init /\ [][Next]_vars

\* ------------------------------------------ safe_binning, statement by statement
AllSeries == UNION {[1..n -> Cell] : n \in 0..MaxLen}

InitBin ==
    /\ AppIdle
    /\ series \in AllSeries
    /\ bins \in 1..MaxBins
    /\ sb_pc = "call" /\ cur = <<>> /\ attempts = <<>> /\ result = NoResult

Attempt(strategy, s, o) == [strategy |-> strategy, input |-> s, ok |-> o.ok]

\* series = series.dropna()
SB_Dropna ==
    /\ sb_pc = "call"
    /\ cur' = dropna(series)
    /\ sb_pc' = "check"
    /\ UNCHANGED <<series, bins, attempts, result>>
    /\ UNCHANGED appvars

\* if series.empty: return np.array([]), np.array([])
ReturnEmptyGuard ==
    /\ sb_pc = "check"
    /\ empty(cur)

SB_ReturnEmpty ==
    /\ ReturnEmptyGuard
    /\ result' = EmptyResult
    /\ sb_pc' = "done"
    /\ UNCHANGED <<series, bins, cur, attempts>>
    /\ UNCHANGED appvars

\* the try block, quantile branch
TryQcutGuard ==
    /\ sb_pc = "check"
    /\ ~empty(cur)
    /\ first_attempt(cur, bins) = "qcut"

SB_TryQcut ==
    /\ TryQcutGuard
    /\ \E o \in qcut(cur, bins) :
          /\ attempts' = Append(attempts, Attempt("qcut", cur, o))
          /\ IF o.ok
             THEN result' = o /\ sb_pc' = "done"
             ELSE result' = result /\ sb_pc' = "except_outer"
    /\ UNCHANGED <<series, bins, cur>>
    /\ UNCHANGED appvars

\* the try block, equal-width branch
TryCutGuard ==
    /\ sb_pc = "check"
    /\ ~empty(cur)
    /\ first_attempt(cur, bins) = "cut"

SB_TryCut ==
    /\ TryCutGuard
    /\ LET o == cut(cur, bins)
       IN  /\ attempts' = Append(attempts, Attempt("cut", cur, o))
           /\ IF o.ok
              THEN result' = o /\ sb_pc' = "done"
              ELSE result' = result /\ sb_pc' = "except_outer"
    /\ UNCHANGED <<series, bins, cur>>
    /\ UNCHANGED appvars

\* except Exception: try pd.cut
SB_ExceptOuter ==
    /\ sb_pc = "except_outer"
    /\ LET o == cut(cur, bins)
       IN  /\ attempts' = Append(attempts, Attempt("cut", cur, o))
           /\ IF o.ok
              THEN result' = o /\ sb_pc' = "done"
              ELSE result' = result /\ sb_pc' = "except_inner"
    /\ UNCHANGED <<series, bins, cur>>
    /\ UNCHANGED appvars

\* except Exception: return pd.Series(series), series.unique()
SB_ExceptInner ==
    /\ sb_pc = "except_inner"
    /\ result' = except_inner(cur)
    /\ sb_pc' = "done"
    /\ UNCHANGED <<series, bins, cur, attempts>>
    /\ UNCHANGED appvars

NextBin ==
    \/ SB_Dropna
    \/ SB_ReturnEmpty
    \/ SB_TryQcut
    \/ SB_TryCut
    \/ SB_ExceptOuter
    \/ SB_ExceptInner

SpecBin == InitBin /\ [][NextBin]_vars

\* the statement-by-statement run returns what safe_binning as a whole can
StepsAgree == sb_pc = "done" => result \in safe_binning(series, bins)

\* ================================================================ claims

Done == sb_pc = "done"
Distinct(s) == Cardinality(np_unique(s))
HasInf(s) == \E i \in DOMAIN s : isinf(s[i])
Last(sq) == sq[Len(sq)]

\* C1: safe_binning never raises.  Whatever the series (empty, all missing,
\* all identical, holding +inf or -inf) and the positive bin count, the call
\* has a next statement to run until its end, and at its end it has
\* returned a pair (labels, edges) produced by one of its branches, with a
\* label for every entry that dropna kept, not an exception.
C1_NeverRaises ==
    /\ ~Done =>
          \/ sb_pc \in {"call", "except_outer", "except_inner"}
          \/ ReturnEmptyGuard
          \/ TryCutGuard
          \/ TryQcutGuard /\ qcut(cur, bins) # {}
    /\ Done => /\ result.ok
               /\ result.kind \in {"empty", "qcut", "cut", "identity"}
               /\ DOMAIN result.labels = DOMAIN cur

\* C1 witness: a call on a series holding an infinity has gone through both
\* except clauses and returned the identity pair.
C1_Witness ==
    /\ Done /\ HasInf(series) /\ result.kind = "identity"
    /\ Len(attempts) = 2 /\ \A k \in 1..2 : ~attempts[k].ok

\* C2: the strategies run in the order quantile, equal-width, identity.
\* Quantile is attempted only first and only when the distinct values
\* outnumber the bins; equal-width is attempted first when they do not, and
\* otherwise only after a failed attempt; every attempt before the last one
\* failed; a returned quantile or equal-width result is that of the last
\* attempt; identity is returned only after a failed equal-width attempt,
\* when every attempt failed, the quantile attempt was not skipped where it
\* applies, and equal-width binning of the same data does fail.
C2_FallbackOrder ==
    LET n == Len(attempts)
    IN  /\ n <= 2
        /\ \A k \in 1..n :
              /\ attempts[k].strategy = "qcut" => k = 1 /\ Distinct(cur) > bins
              /\ attempts[k].strategy = "cut" =>
                    \/ k = 1 /\ Distinct(cur) <= bins
                    \/ k = 2 /\ ~attempts[1].ok
              /\ k < n => ~attempts[k].ok
        /\ Done /\ result.kind \in {"qcut", "cut"} =>
              /\ n >= 1 /\ Last(attempts).ok
              /\ Last(attempts).strategy = result.kind
        /\ Done /\ result.kind = "identity" =>
              /\ n >= 1 /\ Last(attempts).strategy = "cut"
              /\ \A k \in 1..n : ~attempts[k].ok
              /\ Distinct(cur) > bins => attempts[1].strategy = "qcut"
              /\ ~cut(cur, bins).ok

\* C2 witness: quantile raised, equal-width raised, identity was returned.
C2_Witness ==
    /\ Done /\ result.kind = "identity"
    /\ Len(attempts) = 2
    /\ attempts[1].strategy = "qcut" /\ attempts[2].strategy = "cut"

\* the buckets of a returned pair
BucketCount(r) ==
    IF r.kind = "identity" THEN Len(r.edges)
    ELSE IF Len(r.edges) = 0 THEN 0 ELSE Len(r.edges) - 1

\* v lies in the k-th interval of r: (edges[k], edges[k+1]], the first one
\* closed on the left when the lowest edge is included
InBucket(v, r, k) ==
    \/ r.edges[k] < r.scale * v /\ r.scale * v <= r.edges[k + 1]
    \/ k = 1 /\ r.kind = "qcut" /\ r.scale * v = r.edges[1]

Covers(r, s) ==
    IF r.kind = "identity"
    THEN \A i \in DOMAIN s :
            Cardinality({k \in 1..Len(r.edges) : r.edges[k] = s[i]}) = 1
    ELSE /\ \A k \in 1..(Len(r.edges) - 1) : r.edges[k] < r.edges[k + 1]
         /\ \A i \in DOMAIN s :
               /\ Cardinality({k \in 1..(Len(r.edges) - 1) : InBucket(s[i], r, k)}) = 1
               /\ i \in DOMAIN r.labels
               /\ r.labels[i].kind = "interval"
               /\ \E k \in 1..(Len(r.edges) - 1) :
                     /\ InBucket(s[i], r, k)
                     /\ r.labels[i] = Interval(r.edges[k], r.edges[k + 1])

\* C6: for a series with more distinct values than bins, safe_binning
\* returns at most `bins` buckets, which do not overlap and of which exactly
\* one holds each input value, the minimum and the maximum included.
C6_AtMostBinsCovering ==
    Done /\ Distinct(dropna(series)) > bins =>
        /\ BucketCount(result) <= bins
        /\ Covers(result, dropna(series))

\* C6 on finite data only (the part of the claim the code does keep).
C6_FiniteData ==
    Done /\ Distinct(dropna(series)) > bins /\ ~HasInf(series) =>
        /\ result.kind = "qcut"
        /\ BucketCount(result) <= bins
        /\ Covers(result, dropna(series))

\* C7: safe_binning drops every NaN, +inf and -inf entry before any strategy
\* runs: no strategy receives a non-finite value, and the returned labels
\* are those of the finite entries of the input, one each.
C7_DropsNonFinite ==
    /\ \A k \in 1..Len(attempts) :
          \A i \in DOMAIN attempts[k].input : attempts[k].input[i] \in Finite
    /\ Done => DOMAIN result.labels = {i \in DOMAIN series : series[i] \in Finite}

\* C7 on missing values only (what dropna does drop).
C7_DropsMissing ==
    /\ \A k \in 1..Len(attempts) :
          \A i \in DOMAIN attempts[k].input : attempts[k].input[i] # NaN
    /\ Done => DOMAIN result.labels = {i \in DOMAIN series : series[i] # NaN}

\* C8: on an empty series, or one whose entries are all missing, the call
\* returns two empty sequences, for every bin count, and has attempted no
\* binning strategy.
C8_EmptyInput ==
    Done /\ (\A i \in DOMAIN series : series[i] = NaN) =>
        /\ result.kind = "empty"
        /\ result.labels = <<>> /\ result.edges = <<>>
        /\ attempts = <<>>

\* C8 witness: a call on a non-empty, all-missing series has returned.
C8_Witness ==
    /\ Done /\ Len(series) >= 2 /\ \A i \in DOMAIN series : series[i] = NaN
    /\ result.kind = "empty"

TargetPresent == file.kind = "csv" /\ TARGET_FEATURE \in Range(file.frame.columns)

PageRendered ==
    \/ HomePage \/ DataOverviewPage \/ UnivariatePage
    \/ BivariatesPage \/ CorrelationPage \/ DefaulterProfilingPage

Kinds(items) == {items[k].kind : k \in 1..Len(items)}

\* C3: a page handler runs only from the ready state.  A run that has
\* entered a handler (or can enter one) read the file and found default_ind;
\* when the file is missing or unreadable or the column is absent the run
\* has halted once the load is over, with a message on the page, without
\* having entered a handler and with none open to it, and the file is read
\* no more than once in a run.
C3_PagesOnlyWhenReady ==
    /\ invoked # {} => TargetPresent
    /\ pc \in {"ready", "done", "crashed"} => TargetPresent
    /\ ENABLED PageRendered => pc = "ready" /\ TargetPresent
    /\ ~TargetPresent /\ pc # "loading" =>
          /\ pc = "halted"
          /\ invoked = {}
          /\ Kinds(out) \cap {"error", "warning"} # {}
          /\ Kinds(out) \cap {"chart", "table", "image", "iframe"} = {}
    /\ loads <= 1

\* C3 witness: the file was read, default_ind is not among its columns, and
\* the run has halted on the error message.
C3_Witness ==
    /\ pc = "halted" /\ file.kind = "csv" /\ ~TargetPresent
    /\ loads = 1 /\ out = <<Item("error", "no target")>>

\* C4: no exception leaves a page handler: whatever raises inside any of
\* the six handlers is caught there and shown as a message, so no run ends
\* by an exception.
C4_HandlersCatch == pc # "crashed"

\* C4 for the two plot helpers of the Bivariates page (the part the code
\* does keep): an exception inside plot_boxplot or plot_event_rate_bar ends
\* as an error item on the page and the run goes on to its end.
C4_PlotHelpersCatch ==
    pc = "crashed" => Kinds(out) \cap {"error"} = {}

RECURSIVE SumCounts(_)
SumCounts(T) ==
    IF T = {} THEN 0
    ELSE LET r == CHOOSE q \in T : TRUE IN r.Count + SumCounts(T \ {r})

\* C5: plot_event_rate_bar keeps a row exactly when its feature cell is
\* finite and its target cell is not missing; the kept feature and target
\* cells are those of the same rows of the dataset; and the counts of the
\* event-rate table add up to the number of kept rows, whichever bin count
\* of the slider and whichever strategy safe_binning used.
C5_PairedExclusion ==
    rate.ran =>
        LET xcol == file.frame.data[rate.feature]
            ycol == file.frame.data[TARGET_FEATURE]
            kept == {i \in 1..NRows : xcol[i] \in Finite /\ ycol[i] # NaN}
        IN  /\ DOMAIN rate.x = kept
            /\ DOMAIN rate.y = kept
            /\ \A i \in kept : rate.x[i] = xcol[i] /\ rate.y[i] = ycol[i]
            /\ rate.made => SumCounts(rate.table) = Cardinality(kept)
            /\ rate.made => \A k \in 1..Len(binCalls) :
                                binCalls[k].bins \in SliderMin..SliderMax

\* C5 witness: a table was made from a dataset in which one row was dropped
\* for its feature cell or its target cell, and the others were binned.
C5_Witness ==
    /\ rate.made
    /\ Cardinality(DOMAIN rate.x) = NRows - 1
    /\ \E i \in 1..NRows : i \notin DOMAIN rate.x /\ i < NRows
    /\ Cardinality(rate.table) >= 2

\* C5 second witness: the quantile strategy made the table.
C5_WitnessQuantile ==
    rate.made /\ Len(binCalls) = 1 /\ binCalls[1].kind = "qcut"

\* C9: when no row is left after the paired exclusion, plot_event_rate_bar
\* shows a warning and nothing else: no table, no chart, no error; it has
\* not called safe_binning; and the run ends normally.
C9_NoDataWarning ==
    rate.ran /\ empty(rate.x) =>
        /\ out = <<Item("warning", rate.feature)>>
        /\ ~rate.made /\ rate.table = {}
        /\ binCalls = <<>>
        /\ pc = "done"

\* C9 witness: the feature column is all NaN, the target column is not, and
\* the event-rate plot was asked for.
C9_Witness ==
    /\ rate.ran /\ empty(rate.x)
    /\ \A i \in 1..NRows : file.frame.data["x"][i] = NaN
    /\ \E i \in 1..NRows : file.frame.data[TARGET_FEATURE][i] = 0
    /\ \E i \in 1..NRows : file.frame.data[TARGET_FEATURE][i] = 1

\* C10: the DataFrame the shell holds is the one read from the file, at
\* every point of every run after the load and across reruns, whichever
\* pages were rendered and however they ended.
C10_DatasetUnchanged ==
    /\ pc \in {"ready", "done", "crashed"} => df = file.frame
    /\ pc = "halted" /\ file.kind = "csv" => df = file.frame

\* C10 witness: the event-rate plot replaced an infinity of the feature
\* column in its own copy, and the shell's column still holds it.
C10_Witness ==
    /\ rate.made /\ pc = "done"
    /\ \E i \in 1..NRows : isinf(df.data[rate.feature][i])

====
